---- MODULE Spec2Model ----
(***************************************************************************)
(* MiniTrace (runtime/mini_trace.cc, runtime/mini_trace.h): the coverage   *)
(* lifecycle controller of the ART runtime.  The model has the controller  *)
(* threads calling Start / Stop / Shutdown / DumpCoverageData, the class   *)
(* linker calling the class-prepare callback, and the execution engine     *)
(* marking coverage bytes.                                                 *)
(***************************************************************************)
EXTENDS Integers, Sequences, FiniteSets, TLC

\* ------------------------------------------------------------ bounds
\* Controller threads (callers of the static MiniTrace API).
Threads == {"t1", "t2"}
\* Addresses `new MiniTrace()` can return; a freed address is reused.
MaxSessions == 2
\* Calls of the static entry points in one run.
MaxCalls == 3
\* Classes the class linker holds at one time, in the class-filter runs.
MaxLoaded == 2

NoThread == "none"
NullTrace == 0
SessionIds == 1..MaxSessions

\* ------------------------------------------------------------ classes
\* A dex location is a sequence of path tokens, "/" being a token.
SystemFrameworkPrefix == <<"/", "system", "/", "framework", "/">>

Classes == {"Main", "Sys", "Fwks", "Arr", "Itf", "Prim", "Prox"}

\* The classes of the runs with two controller threads.
CoreClasses == {"Main", "Sys"}

AppLocation == <<"/", "data", "/", "app", "/", "a.apk">>

\* What mirror::Class answers for each class of the model.
ClassInfo(c) ==
  [ array     |-> c = "Arr",
    interface |-> c = "Itf",
    primitive |-> c = "Prim",
    proxy     |-> c = "Prox",
    location  |-> CASE c = "Sys"  -> <<"/", "system", "/", "framework", "/", "core.jar">>
                    [] c = "Fwks" -> <<"/", "system", "/", "frameworks", "/", "x.jar">>
                    [] OTHER      -> AppLocation ]

\* ------------------------------------------------------------ methods
Methods == {"m1", "m2", "m3", "m4"}

\* What ArtMethod answers: declaring class, GetCodeItem() != nullptr,
\* InsnsSizeInCodeUnits().
MethodInfo(m) ==
  CASE m = "m1" -> [class |-> "Main", code |-> TRUE,  insns |-> 2]
    [] m = "m2" -> [class |-> "Main", code |-> FALSE, insns |-> 0]
    [] m = "m3" -> [class |-> "Main", code |-> TRUE,  insns |-> 0]
    [] m = "m4" -> [class |-> "Sys",  code |-> TRUE,  insns |-> 2]

\* klass->GetDeclaredMethods(), in declaration order.
DeclaredMethods(c) ==
  CASE c = "Main" -> <<"m1", "m2", "m3">>
    [] c = "Sys"  -> <<"m4">>
    [] OTHER      -> <<>>

\* The order in which ClassLinker::VisitClasses meets the classes.
ClassOrder == <<"Main", "Sys", "Fwks", "Arr", "Itf", "Prim", "Prox">>

\* Bytes of a method's coverage array: one per two-instruction-unit granule.
CoverageLen(m) == MethodInfo(m).insns \div 2

\* GetCoverageData() == nullptr: the array is not allocated.
NullData == [null |-> TRUE, bytes |-> <<>>]

VARIABLES
  the_trace_,      \* MiniTrace::the_trace_: a session address or NullTrace
  live,            \* MiniTrace objects allocated and not deleted
  listeners,       \* listeners the instrumentation holds
  methodTracing,   \* method tracing enabled under kMiniTracerInstrumentationKey
  gcOwner,         \* thread inside a ScopedGCCriticalSection, or NoThread
  suspendOwner,    \* thread inside a ScopedSuspendAll, or NoThread
  config,          \* the trigger file of this run: "absent", "unreadable" or "ok"
  fileExists,      \* the coverage dump file exists
  file,            \* its content, a sequence of lines
  loaded,          \* classes the class linker holds
  traceable,       \* classes with the mini-traceable flag
  stubs,           \* classes InstallStubsForClass was called for
  data,            \* per method: NullData or the coverage array
  pc,              \* per thread: position in the call it executes
  call,            \* per thread: the entry point it called last
  start,           \* per thread: DumpCoverageData's parameter
  the_trace,       \* per thread: Stop's local the_trace
  os,              \* per thread: DumpCoverageData's std::ostringstream
  walk,            \* per thread: classes VisitClasses has yet to visit
  meth,            \* per thread: methods of the visited class yet to dump
  bits,            \* per thread: characters of the line being printed
  reported,        \* coverage bytes whose present marking a dump has printed
  calls,           \* entry-point calls made so far
  created          \* sessions `new MiniTrace()` has made so far

shared == <<the_trace_, live, listeners, methodTracing, created>>
locks == <<gcOwner, suspendOwner>>
files == <<config, fileExists, file>>
klasses == <<loaded, traceable, stubs>>
cover == <<data, reported, calls>>
locals == <<pc, call, start, the_trace, os, walk, meth, bits>>
vars == <<shared, locks, files, klasses, cover, locals>>

\* ------------------------------------------------------------ helpers
Min(a, b) == IF a < b THEN a ELSE b

RECURSIVE StrncmpEq(_, _, _)
\* strncmp(a, b, n) == 0: the first n tokens agree, or both strings end
\* together before that.
StrncmpEq(a, b, n) ==
  IF n = 0 THEN TRUE
  ELSE IF a = <<>> /\ b = <<>> THEN TRUE
  ELSE IF a = <<>> \/ b = <<>> THEN FALSE
  ELSE IF Head(a) # Head(b) THEN FALSE
  ELSE StrncmpEq(Tail(a), Tail(b), n - 1)

IsMiniTraceActive == the_trace_ # NullTrace

\* new MiniTrace(): the lowest free address.
NewTrace == CHOOSE s \in SessionIds \ live : \A r \in SessionIds \ live : s <= r

\* ------------------------------------------------------------ class filter
\* PostClassPrepare without the dex-location test.
PostClassPrepareNoLocation(c, tr, st, active) ==
  LET k == ClassInfo(c) IN
  IF k.array \/ k.interface \/ k.primitive \/ k.proxy
  THEN [traceable |-> tr, stubs |-> st]
  ELSE [traceable |-> tr \cup {c},
        stubs     |-> IF active THEN st \cup {c} ELSE st]

\* The class filter that installs stubs whether or not a session is active.
PostClassPrepareAlwaysStubs(c, tr, st, active) ==
  LET k == ClassInfo(c) IN
  IF k.array \/ k.interface \/ k.primitive \/ k.proxy
  THEN [traceable |-> tr, stubs |-> st]
  ELSE IF StrncmpEq(k.location, SystemFrameworkPrefix, Len(SystemFrameworkPrefix))
  THEN [traceable |-> tr, stubs |-> st]
  ELSE [traceable |-> tr \cup {c}, stubs |-> st \cup {c}]

\* MiniTrace::PostClassPrepare on class c, given the flag set tr, the stub
\* set st and what IsMiniTraceActive() answers: the sets after the call.
PostClassPrepare(c, tr, st, active) ==
  LET k == ClassInfo(c) IN
  IF k.array \/ k.interface \/ k.primitive \/ k.proxy
  THEN [traceable |-> tr, stubs |-> st]
  ELSE IF StrncmpEq(k.location, SystemFrameworkPrefix, Len(SystemFrameworkPrefix))
  THEN [traceable |-> tr, stubs |-> st]
  ELSE [traceable |-> tr \cup {c},
        stubs     |-> IF active THEN st \cup {c} ELSE st]

RECURSIVE VisitClassesPrepare(_, _, _, _)
\* VisitClasses with a PostClassPrepareClassVisitor over the classes cs.
VisitClassesPrepare(cs, tr, st, active) ==
  IF cs = <<>> THEN [traceable |-> tr, stubs |-> st]
  ELSE LET r == PostClassPrepare(Head(cs), tr, st, active)
       IN VisitClassesPrepare(Tail(cs), r.traceable, r.stubs, active)

\* The loaded classes in the order VisitClasses meets them.
LoadedSeq == SelectSeq(ClassOrder, LAMBDA c : c \in loaded)

\* ------------------------------------------------------------ coverage codec
\* Indices the dump of m reads outside its coverage array.  Index
\* MethodInfo(m).insns stands for every byte the word scan reads past the
\* printed run.
OobIdx(m) == CoverageLen(m)..MethodInfo(m).insns

\* data[j] as the dump of m reads it: the array's byte, or whatever the
\* memory behind the array holds (oob).
Mem(m, d, oob, j) ==
  IF j < Len(d.bytes) THEN d.bytes[j + 1]
  ELSE oob[Min(j, MethodInfo(m).insns)]

\* The uint32 p[i] of the skip scan is nonzero.
WordNonZero(m, d, oob, i) == \E j \in (4 * i)..(4 * i + 3) : Mem(m, d, oob, j) # 0

\* Word indices the skip scan reads: for (i = 0; i <= length; i++).
ScanWords(m) == 0..(MethodInfo(m).insns \div 2)

\* Byte indices the print loop reads: for (i = 0; i < insns_size; i++).
EmitIdx(m) == 0..(MethodInfo(m).insns - 1)

\* The method passes the skip test of lines 116-130.
Visited(m, d, oob) ==
  \/ Mem(m, d, oob, 0) # 0
  \/ \E i \in ScanWords(m) : WordNonZero(m, d, oob, i)

\* ArtMethod::IsMiniTraceable(): the declaring class carries the flag.
MethodIsMiniTraceable(m, tr) == MethodInfo(m).class \in tr

\* Lines 96-114: the method is eligible and has code, an array and
\* instructions.
PassesGates(m, d, tr) ==
  /\ MethodIsMiniTraceable(m, tr)
  /\ MethodInfo(m).code
  /\ ~d.null
  /\ MethodInfo(m).insns # 0

\* Lines 95-130: DumpCoverageData(os, method) goes on to print a line.
EntersPrintLoop(m, d, tr, oob) == PassesGates(m, d, tr) /\ Visited(m, d, oob)

\* Lines 137-142: the character printed for a byte of value v.
PrintChar(v) == IF v # 0 THEN 1 ELSE 0

\* Line 139: data[i] = 0.
ClearByte(d, i) == [d EXCEPT !.bytes[i + 1] = 0]

\* Lines 132-134 and 144: the line of method m with the run printed.
CovLine(m, run) ==
  [kind |-> "Cov", m |-> m, insns |-> MethodInfo(m).insns, bits |-> run]

\* Envelope lines.
StartLine == [kind |-> "Start"]
DumpLine == [kind |-> "Dump"]

\* ------------------------------------------------------------ files
\* File::WriteFully appends the buffer to a file opened O_APPEND.
WriteFully(f, buf) == f \o buf

\* File::Erase leaves the file empty.
Erase(f) == <<>>

\* A WriteFully that fails after part of the buffer went out: the first
\* k - 1 lines of it and a piece of line k are in the file.
WriteTorn(f, buf, k) == f \o SubSeq(buf, 1, k - 1) \o <<[kind |-> "Torn"]>>

\* ------------------------------------------------------------ Init
InitCommon ==
  /\ the_trace_ = NullTrace
  /\ live = {}
  /\ listeners = {}
  /\ methodTracing = FALSE
  /\ created = 0
  /\ gcOwner = NoThread
  /\ suspendOwner = NoThread
  /\ config \in {"absent", "unreadable", "ok"}
  /\ fileExists = FALSE
  /\ file = <<>>
  /\ traceable = {}
  /\ stubs = {}
  /\ data = [m \in Methods |-> NullData]
  /\ reported = {}
  /\ calls = 0
  /\ pc = [t \in Threads |-> "idle"]
  /\ call = [t \in Threads |-> "none"]
  /\ start = [t \in Threads |-> FALSE]
  /\ the_trace = [t \in Threads |-> NullTrace]
  /\ os = [t \in Threads |-> <<>>]
  /\ walk = [t \in Threads |-> <<>>]
  /\ meth = [t \in Threads |-> <<>>]
  /\ bits = [t \in Threads |-> <<>>]

\* Two controller threads; the classes are CoreClasses, some loaded before
\* the class-load callback was registered.
Init ==
  /\ InitCommon
  /\ loaded \in SUBSET CoreClasses

\* ------------------------------------------------------------ thread steps
\* The call of thread t returns: its frame is gone.
Return(t) ==
  /\ pc' = [pc EXCEPT ![t] = "idle"]
  /\ UNCHANGED call
  /\ start' = [start EXCEPT ![t] = FALSE]
  /\ the_trace' = [the_trace EXCEPT ![t] = NullTrace]
  /\ os' = [os EXCEPT ![t] = <<>>]
  /\ walk' = [walk EXCEPT ![t] = <<>>]
  /\ meth' = [meth EXCEPT ![t] = <<>>]
  /\ bits' = [bits EXCEPT ![t] = <<>>]

\* Thread t moves to position p of its call.
Goto(t, p) ==
  /\ pc' = [pc EXCEPT ![t] = p]
  /\ UNCHANGED <<call, start, the_trace, os, walk, meth, bits>>

\* A thread calls one of the static entry points.
Enter(t, fn, p) ==
  /\ pc[t] = "idle"
  /\ calls < MaxCalls
  /\ calls' = calls + 1
  /\ pc' = [pc EXCEPT ![t] = p]
  /\ call' = [call EXCEPT ![t] = fn]
  /\ UNCHANGED <<start, the_trace, os, walk, meth, bits>>
  /\ UNCHANGED <<shared, locks, files, klasses, data, reported>>

CallStart(t) == Enter(t, "Start", "s_check")
CallStop(t) == Enter(t, "Stop", "p_take")
CallShutdown(t) == Enter(t, "Shutdown", "h_check")

\* DumpCoverageData(bool start = false) is public: a periodic dump.
CallDump(t) ==
  /\ Enter(t, "Dump", "d_check")

\* ------------------------------------------------------------ Start
\* The first look without its return.
StartCheckNoReturn(t) ==
  /\ pc[t] = "s_check"
  /\ Goto(t, "s_config")
  /\ UNCHANGED <<shared, locks, files, klasses, cover>>

\* Lines 198-204: the first look at the_trace_, under trace_lock_.
StartCheck(t) ==
  /\ pc[t] = "s_check"
  /\ IF the_trace_ # NullTrace THEN Return(t) ELSE Goto(t, "s_config")
  /\ UNCHANGED <<shared, locks, files, klasses, cover>>

\* The admission test without the open.
StartConfigExistsOnly(t) ==
  /\ pc[t] = "s_config"
  /\ IF config # "absent" THEN Goto(t, "s_gcs") ELSE Return(t)
  /\ UNCHANGED <<shared, locks, files, klasses, cover>>

\* Lines 206-223: the trigger file must exist and open.
StartConfig(t) ==
  /\ pc[t] = "s_config"
  /\ IF config = "ok" THEN Goto(t, "s_gcs") ELSE Return(t)
  /\ UNCHANGED <<shared, locks, files, klasses, cover>>

\* gc::ScopedGCCriticalSection: one thread at a time.
EnterGcCritical(t, from, to) ==
  /\ pc[t] = from
  /\ gcOwner = NoThread
  /\ gcOwner' = t
  /\ Goto(t, to)
  /\ UNCHANGED <<suspendOwner, shared, files, klasses, cover>>

\* Positions at which a thread holds the mutator lock shared.
WalkPcs == {"d_walk", "d_emit", "d_clear"}

\* ScopedSuspendAll: waits until no other thread holds the mutator lock.
EnterSuspendAll(t, from, to) ==
  /\ pc[t] = from
  /\ suspendOwner = NoThread
  /\ \A u \in Threads \ {t} : pc[u] \notin WalkPcs
  /\ suspendOwner' = t
  /\ Goto(t, to)
  /\ UNCHANGED <<gcOwner, shared, files, klasses, cover>>

\* The closing brace that leaves the GC critical section held.
LeaveCriticalKeepsGc(t, from, to) ==
  /\ pc[t] = from
  /\ suspendOwner' = NoThread
  /\ pc' = [pc EXCEPT ![t] = to]
  /\ start' = [start EXCEPT ![t] = (call[t] = "Start")]
  /\ UNCHANGED <<call, the_trace, os, walk, meth, bits>>
  /\ UNCHANGED <<gcOwner, shared, files, klasses, cover>>

\* The closing brace: ~ScopedSuspendAll, then ~ScopedGCCriticalSection.
LeaveCritical(t, from, to) ==
  /\ pc[t] = from
  /\ suspendOwner' = NoThread
  /\ gcOwner' = NoThread
  /\ pc' = [pc EXCEPT ![t] = to]
  /\ start' = [start EXCEPT ![t] = (call[t] = "Start")]
  /\ UNCHANGED <<call, the_trace, os, walk, meth, bits>>
  /\ UNCHANGED <<shared, files, klasses, cover>>

StartGcs(t) == EnterGcCritical(t, "s_gcs", "s_ssa")
StartSuspend(t) == EnterSuspendAll(t, "s_ssa", "s_body")

\* The creation without the walk over the loaded classes.
StartBodyNoWalk(t) ==
  /\ pc[t] = "s_body"
  /\ IF the_trace_ # NullTrace
     THEN UNCHANGED <<shared, klasses>>
     ELSE LET s == NewTrace
          IN /\ the_trace_' = s
             /\ live' = live \cup {s}
             /\ listeners' = listeners \cup {s}
             /\ methodTracing' = TRUE
             /\ created' = created + 1
             /\ UNCHANGED klasses
  /\ Goto(t, "s_rel")
  /\ UNCHANGED <<locks, files, cover>>

\* Lines 232-245, under trace_lock_: the second look, and the creation.
StartBody(t) ==
  /\ pc[t] = "s_body"
  /\ IF the_trace_ # NullTrace
     THEN UNCHANGED <<shared, klasses>>
     ELSE LET s == NewTrace
              r == VisitClassesPrepare(LoadedSeq, traceable, stubs, s # NullTrace)
          IN /\ the_trace_' = s
             /\ live' = live \cup {s}
             /\ listeners' = listeners \cup {s}
             /\ methodTracing' = TRUE
             /\ created' = created + 1
             /\ traceable' = r.traceable
             /\ stubs' = r.stubs
             /\ UNCHANGED loaded
  /\ Goto(t, "s_rel")
  /\ UNCHANGED <<locks, files, cover>>

\* Line 246, then line 247 calls DumpCoverageData(true).
StartRelease(t) == LeaveCritical(t, "s_rel", "d_check")

\* ------------------------------------------------------------ Stop
\* The take that leaves the pointer in place.
StopTakeNoClear(t) ==
  /\ pc[t] = "p_take"
  /\ the_trace' = [the_trace EXCEPT ![t] = the_trace_]
  /\ pc' = [pc EXCEPT ![t] = IF the_trace_ # NullTrace THEN "p_gcs" ELSE "d_check"]
  /\ start' = [start EXCEPT ![t] = FALSE]
  /\ UNCHANGED <<call, os, walk, meth, bits>>
  /\ UNCHANGED <<shared, locks, files, klasses, cover>>

\* Lines 255-263, under trace_lock_: take the session pointer.
StopTake(t) ==
  /\ pc[t] = "p_take"
  /\ the_trace' = [the_trace EXCEPT ![t] = the_trace_]
  /\ the_trace_' = NullTrace
  /\ pc' = [pc EXCEPT ![t] = IF the_trace_ # NullTrace THEN "p_gcs" ELSE "d_check"]
  /\ start' = [start EXCEPT ![t] = FALSE]
  /\ UNCHANGED <<call, os, walk, meth, bits>>
  /\ UNCHANGED <<live, listeners, methodTracing, created>>
  /\ UNCHANGED <<locks, files, klasses, cover>>

StopGcs(t) == EnterGcCritical(t, "p_gcs", "p_ssa")
StopSuspend(t) == EnterSuspendAll(t, "p_ssa", "p_body")

\* Lines 270-273: the teardown of the session taken.
StopBody(t) ==
  /\ pc[t] = "p_body"
  /\ methodTracing' = FALSE
  /\ listeners' = listeners \ {the_trace[t]}
  /\ live' = live \ {the_trace[t]}
  /\ Goto(t, "p_rel")
  /\ UNCHANGED <<the_trace_, created, locks, files, klasses, cover>>

\* Line 274, then line 275 calls DumpCoverageData(false).
StopRelease(t) == LeaveCritical(t, "p_rel", "d_check")

\* ------------------------------------------------------------ Shutdown
\* Shutdown() that calls Stop() whatever IsMiniTraceActive() answers.
ShutdownCheckAlwaysStop(t) ==
  /\ pc[t] = "h_check"
  /\ Goto(t, "p_take")
  /\ UNCHANGED <<shared, locks, files, klasses, cover>>

\* Lines 278-282: Stop() only if IsMiniTraceActive().
ShutdownCheck(t) ==
  /\ pc[t] = "h_check"
  /\ IF IsMiniTraceActive THEN Goto(t, "p_take") ELSE Return(t)
  /\ UNCHANGED <<shared, locks, files, klasses, cover>>

\* ------------------------------------------------------------ DumpCoverageData(bool)
\* The dump whose early return clears every coverage array.
DumpOpenClearsAll(t) ==
  /\ pc[t] = "d_check"
  /\ \E opened \in BOOLEAN :
       IF ~IsMiniTraceActive \/ ~opened
       THEN /\ Return(t)
            /\ data' = [m \in Methods |->
                          IF data[m].null THEN data[m]
                          ELSE [data[m] EXCEPT !.bytes = [j \in DOMAIN data[m].bytes |-> 0]]]
            /\ UNCHANGED files
       ELSE /\ fileExists' = TRUE
            /\ file' = IF fileExists THEN file ELSE <<>>
            /\ os' = [os EXCEPT ![t] = IF start[t] THEN <<StartLine>> ELSE <<DumpLine>>]
            /\ pc' = [pc EXCEPT ![t] = IF start[t] THEN "d_write" ELSE "d_soa"]
            /\ UNCHANGED <<config, call, start, the_trace, walk, meth, bits, data>>
  /\ UNCHANGED <<shared, locks, klasses, reported, calls>>

\* Lines 148-176: nothing without a session; else open for append or
\* create empty, then the envelope line.
DumpOpen(t) ==
  /\ pc[t] = "d_check"
  /\ \E opened \in BOOLEAN :
       IF ~IsMiniTraceActive \/ ~opened
       THEN /\ Return(t)
            /\ UNCHANGED files
       ELSE /\ fileExists' = TRUE
            /\ file' = IF fileExists THEN file ELSE <<>>
            /\ os' = [os EXCEPT ![t] = IF start[t] THEN <<StartLine>> ELSE <<DumpLine>>]
            /\ pc' = [pc EXCEPT ![t] = IF start[t] THEN "d_write" ELSE "d_soa"]
            /\ UNCHANGED <<config, call, start, the_trace, walk, meth, bits>>
  /\ UNCHANGED <<shared, locks, klasses, cover>>

\* Lines 177-180: ScopedObjectAccess takes the mutator lock shared, then
\* VisitClasses starts.
DumpEnterWalk(t) ==
  /\ pc[t] = "d_soa"
  /\ suspendOwner = NoThread
  /\ walk' = [walk EXCEPT ![t] = LoadedSeq]
  /\ pc' = [pc EXCEPT ![t] = "d_walk"]
  /\ UNCHANGED <<call, start, the_trace, os, meth, bits>>
  /\ UNCHANGED <<shared, locks, files, klasses, cover>>

\* Lines 77-89: DumpCoverageDataClassVisitor meets the next class.
DumpVisitClass(t) ==
  /\ pc[t] = "d_walk"
  /\ meth[t] = <<>>
  /\ walk[t] # <<>>
  /\ meth' = [meth EXCEPT ![t] = IF Head(walk[t]) \in traceable
                                 THEN DeclaredMethods(Head(walk[t])) ELSE <<>>]
  /\ walk' = [walk EXCEPT ![t] = Tail(walk[t])]
  /\ UNCHANGED <<pc, call, start, the_trace, os, bits>>
  /\ UNCHANGED <<shared, locks, files, klasses, cover>>

\* Line 85 and lines 95-130: DumpCoverageData(*os_, &method) for the next
\* declared method, up to the decision to print its line.
DumpMethodScan(t) ==
  /\ pc[t] = "d_walk"
  /\ meth[t] # <<>>
  /\ LET m == Head(meth[t]) IN
     \E oob \in [OobIdx(m) -> {0, 1}] :
       IF EntersPrintLoop(m, data[m], traceable, oob)
       THEN /\ pc' = [pc EXCEPT ![t] = "d_emit"]
            /\ UNCHANGED meth
       ELSE /\ meth' = [meth EXCEPT ![t] = Tail(meth[t])]
            /\ UNCHANGED pc
  /\ UNCHANGED <<call, start, the_trace, os, walk, bits>>
  /\ UNCHANGED <<shared, locks, files, klasses, cover>>

\* The print loop of thread t, which has printed the run nb for method m,
\* goes round, or ends the line (line 144) and returns to the visitor.
LoopOn(t, m, nb) ==
  IF Len(nb) = MethodInfo(m).insns
  THEN /\ os' = [os EXCEPT ![t] = Append(os[t], CovLine(m, nb))]
       /\ meth' = [meth EXCEPT ![t] = Tail(meth[t])]
       /\ bits' = [bits EXCEPT ![t] = <<>>]
       /\ pc' = [pc EXCEPT ![t] = "d_walk"]
  ELSE /\ bits' = [bits EXCEPT ![t] = nb]
       /\ pc' = [pc EXCEPT ![t] = "d_emit"]
       /\ UNCHANGED <<os, meth>>

\* The loop that prints 0 for the byte it goes on to clear.
DumpEmitReadPrintsZero(t) ==
  /\ pc[t] = "d_emit"
  /\ LET m == Head(meth[t])
         i == Len(bits[t])
         inside == i < Len(data[m].bytes)
     IN \E o \in {0, 1} :
          LET v == IF inside THEN data[m].bytes[i + 1] ELSE o
              nb == Append(bits[t], 0)
          IN IF inside /\ v # 0
             THEN /\ bits' = [bits EXCEPT ![t] = nb]
                  /\ pc' = [pc EXCEPT ![t] = "d_clear"]
                  /\ reported' = reported \cup {<<m, i>>}
                  /\ UNCHANGED <<os, meth>>
             ELSE /\ LoopOn(t, m, nb)
                  /\ UNCHANGED reported
  /\ UNCHANGED <<call, start, the_trace, walk>>
  /\ UNCHANGED <<shared, locks, files, klasses, data, calls>>

\* Lines 137-138 and 141: the loop reads data[i] and prints its character.
\* A byte behind the array reads as anything; the clear of such a byte
\* changes nothing the model holds.
DumpEmitRead(t) ==
  /\ pc[t] = "d_emit"
  /\ LET m == Head(meth[t])
         i == Len(bits[t])
         inside == i < Len(data[m].bytes)
     IN \E o \in {0, 1} :
          LET v == IF inside THEN data[m].bytes[i + 1] ELSE o
              nb == Append(bits[t], PrintChar(v))
          IN IF inside /\ v # 0
             THEN /\ bits' = [bits EXCEPT ![t] = nb]
                  /\ pc' = [pc EXCEPT ![t] = "d_clear"]
                  /\ reported' = reported \cup {<<m, i>>}
                  /\ UNCHANGED <<os, meth>>
             ELSE /\ LoopOn(t, m, nb)
                  /\ UNCHANGED reported
  /\ UNCHANGED <<call, start, the_trace, walk>>
  /\ UNCHANGED <<shared, locks, files, klasses, data, calls>>

\* Line 139: the loop clears the byte it has just printed as 1.
DumpEmitClear(t) ==
  /\ pc[t] = "d_clear"
  /\ LET m == Head(meth[t])
         i == Len(bits[t]) - 1
     IN /\ data' = [data EXCEPT ![m] = ClearByte(data[m], i)]
        /\ LoopOn(t, m, bits[t])
  /\ UNCHANGED <<call, start, the_trace, walk>>
  /\ UNCHANGED <<shared, locks, files, klasses, reported, calls>>

\* Line 181: the walk is over, the mutator lock is released.
DumpWalkDone(t) ==
  /\ pc[t] = "d_walk"
  /\ meth[t] = <<>>
  /\ walk[t] = <<>>
  /\ Goto(t, "d_write")
  /\ UNCHANGED <<shared, locks, files, klasses, cover>>

\* The write whose failure leaves the file as the failed write left it.
DumpWriteNoErase(t) ==
  /\ pc[t] = "d_write"
  /\ \E outcome \in {"ok", "write_fails", "flush_fails", "flush_fails_erased"} :
     \E k \in 1..Len(os[t]) :
       file' = CASE outcome = "ok" -> WriteFully(file, os[t])
                 [] outcome = "write_fails" -> WriteTorn(file, os[t], k)
                 [] outcome = "flush_fails" -> WriteFully(file, os[t])
                 [] outcome = "flush_fails_erased" -> Erase(WriteFully(file, os[t]))
  /\ Return(t)
  /\ UNCHANGED <<config, fileExists>>
  /\ UNCHANGED <<shared, locks, klasses, cover>>

\* Lines 183-192: one WriteFully of the buffer, Erase if it fails, then
\* FlushCloseOrErase.
DumpWrite(t) ==
  /\ pc[t] = "d_write"
  /\ \E outcome \in {"ok", "write_fails", "flush_fails", "flush_fails_erased"} :
     \E k \in 1..Len(os[t]) :
       file' = CASE outcome = "ok" -> WriteFully(file, os[t])
                 [] outcome = "write_fails" -> Erase(WriteTorn(file, os[t], k))
                 [] outcome = "flush_fails" -> WriteFully(file, os[t])
                 [] outcome = "flush_fails_erased" -> Erase(WriteFully(file, os[t]))
  /\ Return(t)
  /\ UNCHANGED <<config, fileExists>>
  /\ UNCHANGED <<shared, locks, klasses, cover>>

\* ------------------------------------------------------------ the runtime around
\* The class linker prepares class c on a mutator thread:
\* MiniTraceClassLoadCallback::ClassPrepare, lines 364-367.
ClassPrepare(c) ==
  /\ suspendOwner = NoThread
  /\ c \notin loaded
  /\ loaded' = loaded \cup {c}
  /\ LET r == PostClassPrepare(c, traceable, stubs, IsMiniTraceActive) IN
       /\ traceable' = r.traceable
       /\ stubs' = r.stubs
  /\ UNCHANGED <<shared, locks, files, cover, locals>>

\* The execution engine marks byte i of method m's coverage array,
\* allocating the array on first use.
Execute(m, i) ==
  /\ suspendOwner = NoThread
  /\ MethodInfo(m).class \in traceable
  /\ MethodInfo(m).code
  /\ i \in 0..(CoverageLen(m) - 1)
  /\ LET b == IF data[m].null THEN [j \in 1..CoverageLen(m) |-> 0] ELSE data[m].bytes
     IN data' = [data EXCEPT ![m] = [null |-> FALSE, bytes |-> [b EXCEPT ![i + 1] = 1]]]
  /\ reported' = reported \ {<<m, i>>}
  /\ UNCHANGED calls
  /\ UNCHANGED <<shared, locks, files, klasses, locals>>

\* ------------------------------------------------------------ specification
ThreadStep(t) ==
  \/ CallStart(t) \/ StartCheck(t) \/ StartConfig(t) \/ StartGcs(t)
  \/ StartSuspend(t) \/ StartBody(t) \/ StartRelease(t)
  \/ CallStop(t) \/ StopTake(t) \/ StopGcs(t) \/ StopSuspend(t)
  \/ StopBody(t) \/ StopRelease(t)
  \/ CallShutdown(t) \/ ShutdownCheck(t)
  \/ CallDump(t) \/ DumpOpen(t) \/ DumpEnterWalk(t)
  \/ DumpVisitClass(t) \/ DumpMethodScan(t) \/ DumpEmitRead(t) \/ DumpEmitClear(t)
  \/ DumpWalkDone(t) \/ DumpWrite(t)

Next ==
  \/ \E t \in Threads : ThreadStep(t)
  \/ \E c \in CoreClasses : ClassPrepare(c)
  \/ \E m \in Methods : \E i \in 0..(CoverageLen(m) - 1) : Execute(m, i)

Spec == Init /\ [][Next]_vars

\* A thread that is inside a call and can take a step takes one: the
\* threads are scheduled fairly; whether a thread makes another call is up
\* to it.
Progress(t) == pc[t] # "idle" /\ ThreadStep(t)

FairSpec == Spec /\ \A t \in Threads : WF_vars(Progress(t))

\* One controller thread and every kind of class, at most MaxLoaded of them
\* loaded at a time.
InitK ==
  /\ InitCommon
  /\ loaded \in {S \in SUBSET Classes : Cardinality(S) <= 1}

NextK ==
  \/ ThreadStep("t1")
  \/ \E c \in Classes : Cardinality(loaded) < MaxLoaded /\ ClassPrepare(c)
  \/ \E m \in Methods : \E i \in 0..(CoverageLen(m) - 1) : Execute(m, i)

ClassSpec == InitK /\ [][NextK]_vars

\* ------------------------------------------------------------ vocabulary of the claims
\* Sequence a is a prefix of sequence b.
IsPrefix(a, b) == Len(a) <= Len(b) /\ SubSeq(b, 1, Len(a)) = a

\* The class is of a kind the class filter is to leave alone.
ExcludedCategory(c) ==
  \/ ClassInfo(c).array
  \/ ClassInfo(c).interface
  \/ ClassInfo(c).primitive
  \/ ClassInfo(c).proxy
  \/ IsPrefix(SystemFrameworkPrefix, ClassInfo(c).location)

\* Thread t takes a step of its call.
Stepped(t) ==
  <<pc[t], walk[t], meth[t], bits[t]>> # <<pc'[t], walk'[t], meth'[t], bits'[t]>>

\* Thread t is inside Stop() and its StopTake found no session.
InStopOfNothing(t) ==
  /\ call[t] \in {"Stop", "Shutdown"}
  /\ \/ pc[t] = "p_take" /\ the_trace_ = NullTrace
     \/ pc[t] \in {"d_check", "d_soa", "d_write"} \cup WalkPcs
          /\ the_trace[t] = NullTrace

\* Thread t's dump decides in this step whether the next method gets a line.
DecidesLine(t) == pc[t] = "d_walk" /\ meth[t] # <<>> /\ Stepped(t)

\* Thread t's dump prints one character of a line in this step.
PrintsChar(t) == pc[t] = "d_emit" /\ Stepped(t)

\* Thread t's dump ends a line in this step.
EndsLine(t) == os'[t] # os[t] /\ pc[t] \in {"d_emit", "d_clear"}

\* The coverage line thread t has just ended.
NewLine(t) == os'[t][Len(os'[t])]

\* Array indices of method m.
ByteIdx(m) == 0..(CoverageLen(m) - 1)

\* Some byte of m's coverage array is nonzero.
Marked(m) == ~data[m].null /\ \E j \in ByteIdx(m) : data[m].bytes[j + 1] # 0

\* ------------------------------------------------------------ claims
\* C1: every call of Stop() ends with a full dump, session or no session:
\* unless the file cannot be opened, Stop() does not return from
\* DumpCoverageData before the "Dump" envelope is buffered, and what it
\* appends to the file starts with that envelope.
C1_StopAlwaysDumps ==
  [][\A t \in Threads :
       /\ (call[t] = "Stop" /\ pc[t] = "d_check" /\ pc'[t] = "idle")
            => the_trace_ # NullTrace
       /\ (call[t] = "Stop" /\ pc[t] = "d_write" /\ pc'[t] = "idle"
             /\ Len(file') > Len(file))
            => file'[Len(file) + 1] = DumpLine]_vars

\* C2: in every interleaving at most one session object exists and at most
\* one is registered as instrumentation listener.
C2_OneSession == Cardinality(live) <= 1 /\ Cardinality(listeners) <= 1

\* C3: misuse is a no-op.  A Start() that finds a session returns at once
\* and changes neither the session, the listeners, the tracing mode, the
\* class flags nor the file; no step of a Stop() that found no session
\* changes the session pointer, the listeners or the tracing mode, and its
\* take leaves the pointer null.
C3_MisuseIsNoOp ==
  [][\A t \in Threads :
       /\ (call[t] = "Start" /\ pc[t] = "s_check" /\ the_trace_ # NullTrace
             /\ Stepped(t))
            => /\ pc'[t] = "idle"
               /\ the_trace_' # NullTrace
               /\ UNCHANGED <<shared, klasses, files, data>>
       /\ (InStopOfNothing(t) /\ Stepped(t))
            => /\ UNCHANGED <<the_trace_, live, listeners, methodTracing>>
               /\ (pc[t] = "p_take" => the_trace_' = NullTrace)]_vars

C3_Witness ==
  \E t, u \in Threads :
    /\ t # u
    /\ call[t] = "Start" /\ pc[t] = "s_check" /\ the_trace_ # NullTrace
    /\ call[u] = "Stop" /\ pc[u] = "d_check" /\ the_trace[u] = NullTrace

\* C4: without a trigger file that opens, Start() returns from the
\* admission test and changes nothing; in such a run there is never a
\* session, a listener, tracing, a stub or a dump file.
C4_AdmissionControl ==
  /\ [](config # "ok" =>
          /\ the_trace_ = NullTrace /\ live = {} /\ listeners = {}
          /\ ~methodTracing /\ stubs = {} /\ ~fileExists /\ file = <<>>)
  /\ [][\A t \in Threads :
          (pc[t] = "s_config" /\ config # "ok" /\ Stepped(t))
            => /\ pc'[t] = "idle"
               /\ UNCHANGED <<shared, locks, klasses, files, data>>]_vars

C4_Witness ==
  \E t \in Threads :
    /\ config = "unreadable"
    /\ calls = 1 /\ call[t] = "Start" /\ pc[t] = "idle"
    /\ loaded # {}

\* C5: the step of Start() that creates the session runs with GC blocked
\* and all threads suspended by the caller, and leaves the session active,
\* registered as listener, method tracing on, and every loaded class outside
\* the excluded categories flagged and stubbed; the rest of that Start()
\* changes none of this.
C5_StartEstablishes ==
  [][\A t \in Threads :
       /\ (pc[t] = "s_body" /\ the_trace_ = NullTrace /\ Stepped(t))
            => /\ config = "ok"
               /\ gcOwner = t /\ suspendOwner = t
               /\ gcOwner' = t /\ suspendOwner' = t
               /\ the_trace_' # NullTrace
               /\ the_trace_' \in live' /\ the_trace_' \in listeners'
               /\ methodTracing'
               /\ \A c \in loaded' :
                    ~ExcludedCategory(c) => c \in traceable' /\ c \in stubs'
       /\ (call[t] = "Start" /\ pc[t] \in {"s_rel", "d_check", "d_write"}
             /\ Stepped(t))
            => UNCHANGED <<shared, klasses>>]_vars

C5_Witness ==
  \E t \in Threads :
    /\ calls = 1 /\ call[t] = "Start" /\ pc[t] = "idle"
    /\ the_trace_ # NullTrace /\ the_trace_ \in listeners /\ methodTracing
    /\ loaded = {"Main", "Sys"} /\ traceable = {"Main"} /\ stubs = {"Main"}

\* C6: a class of an excluded category (array, interface, primitive, proxy,
\* dex location under /system/framework/) never carries the flag and never
\* has stubs, whatever callbacks and Start/Stop cycles have run.
C6_ExcludedNeverEligible ==
  \A c \in Classes : ExcludedCategory(c) => c \notin traceable /\ c \notin stubs

C6_Witness ==
  /\ calls = 3 /\ call["t1"] = "Start" /\ pc["t1"] = "idle"
  /\ file = <<StartLine, StartLine>>
  /\ the_trace_ # NullTrace
  /\ \E c \in loaded : ExcludedCategory(c)
  /\ "Main" \in stubs

\* C7: read-and-clear.  When a dump meets a method with a nonzero coverage
\* byte it prints the method's line; a nonzero byte prints as 1 and is zero
\* after the loop's next step; a 1 stands for a marking no dump has printed
\* before; and a byte whose marking has been printed stays zero until it is
\* marked again.
C7_ReadAndClear ==
  /\ [](\A b \in reported :
          \/ data[b[1]].bytes[b[2] + 1] = 0
          \/ \E t \in Threads :
               pc[t] = "d_clear" /\ Head(meth[t]) = b[1] /\ Len(bits[t]) = b[2] + 1)
  /\ [][\A t \in Threads :
          /\ (DecidesLine(t) /\ Marked(Head(meth[t]))) => pc'[t] = "d_emit"
          /\ PrintsChar(t) =>
               LET m == Head(meth[t])
                   j == Len(bits[t])
               IN j \in ByteIdx(m) =>
                    /\ bits'[t][j + 1] = 1 <=> data[m].bytes[j + 1] # 0
                    /\ bits'[t][j + 1] = 1 =>
                         pc'[t] = "d_clear" /\ <<m, j>> \notin reported
          /\ (pc[t] = "d_clear" /\ Stepped(t)) =>
               data'[Head(meth[t])].bytes[Len(bits[t])] = 0]_vars

\* C8: a line for a method iff marked.  The dump goes on to print a line for
\* a method exactly when the method is eligible, has a code body, an array
\* and instructions and some byte of its array is nonzero; and every line
\* the dump ends carries at least one 1.
C8_LineIffMarked ==
  [][\A t \in Threads :
       /\ DecidesLine(t) =>
            LET m == Head(meth[t]) IN
            pc'[t] = "d_emit" <=> (PassesGates(m, data[m], traceable) /\ Marked(m))
       /\ EndsLine(t) =>
            \E k \in DOMAIN NewLine(t).bits : NewLine(t).bits[k] = 1]_vars

\* Byte indices the skip scan examines: data[0], then the words p[i].
ScanIdx(m) == {0} \cup UNION {(4 * i)..(4 * i + 3) : i \in ScanWords(m)}

\* C9: one character per granule.  Every line the dump ends has as many
\* characters as the method has granules, half its instruction units; each
\* character printed for a granule is 1 exactly when the granule's byte was
\* nonzero; and the print loop reads the bytes the skip scan examines.
C9_OneCharPerGranule ==
  [][\A t \in Threads :
       /\ EndsLine(t) =>
            /\ Len(NewLine(t).bits) = CoverageLen(NewLine(t).m)
            /\ EmitIdx(NewLine(t).m) = ScanIdx(NewLine(t).m)
       /\ PrintsChar(t) =>
            LET m == Head(meth[t])
                j == Len(bits[t])
            IN j \in ByteIdx(m) =>
                 (bits'[t][j + 1] = 1 <=> data[m].bytes[j + 1] # 0)]_vars

\* C10: the dump file is append-only.  Whatever a Start, Stop or dump does,
\* with its write or flush failing or not, the file before the step is a
\* prefix of the file after it.
C10_AppendOnly == [][IsPrefix(file, file')]_vars

\* A line of the dump file that is whole.
CompleteLine(r) == r.kind \in {"Start", "Dump", "Cov"}

\* An envelope line.
Envelope(r) == r.kind \in {"Start", "Dump"}

C12_MutationInCriticalSection ==
  /\ [][\A t \in Threads :
          (Stepped(t) /\ (shared' # shared \/ (call[t] = "Start" /\ stubs' # stubs)))
            => gcOwner = t /\ suspendOwner = t]_vars
  /\ [](suspendOwner = NoThread =>
          /\ IsMiniTraceActive <=> methodTracing
          /\ IsMiniTraceActive <=> listeners # {}
          /\ IsMiniTraceActive => the_trace_ \in listeners)

\* Thread t has taken a session in Stop() and has not yet torn it down.
HoldsTaken(t) == pc[t] \in {"p_gcs", "p_ssa", "p_body"}

\* C13: no double stop.  A Stop() that finds a session takes it and leaves
\* the pointer null; one that finds none goes straight to the dump and
\* changes nothing.  A session taken is taken by one thread only, is still
\* alive and registered until that thread's teardown, and the teardown
\* removes exactly that session.
C13_NoDoubleStop ==
  /\ [](\A t \in Threads : HoldsTaken(t) =>
          /\ the_trace[t] # NullTrace
          /\ the_trace[t] \in live /\ the_trace[t] \in listeners
          /\ the_trace[t] # the_trace_
          /\ \A u \in Threads \ {t} : HoldsTaken(u) => the_trace[u] # the_trace[t])
  /\ [][\A t \in Threads :
          /\ (pc[t] = "p_take" /\ Stepped(t)) =>
               IF the_trace_ # NullTrace
               THEN the_trace'[t] = the_trace_ /\ the_trace_' = NullTrace
                      /\ pc'[t] = "p_gcs"
               ELSE the_trace'[t] = NullTrace /\ pc'[t] = "d_check"
                      /\ UNCHANGED shared
          /\ (pc[t] = "p_body" /\ Stepped(t)) =>
               /\ live' = live \ {the_trace[t]}
               /\ listeners' = listeners \ {the_trace[t]}
               /\ Cardinality(live') = Cardinality(live) - 1
          /\ (call[t] \in {"Stop", "Shutdown"} /\ the_trace[t] = NullTrace
                /\ pc[t] # "p_take" /\ Stepped(t)) =>
               UNCHANGED <<live, listeners, methodTracing>>]_vars

\* Two Stop() calls met one session: one is at its teardown, the other found
\* nothing.
C13_Witness ==
  \E t, u \in Threads :
    /\ t # u /\ call[t] = "Stop" /\ call[u] = "Stop"
    /\ pc[t] = "p_body" /\ the_trace[t] # NullTrace
    /\ pc[u] = "d_check" /\ the_trace[u] = NullTrace

\* C14: Shutdown() is idempotent.  With no session it returns at once and
\* changes nothing, the file included; with a session it enters Stop() and
\* none of its steps makes the session pointer non-null; and when the thread
\* that called it is the only caller there has been, no session, listener or
\* tracing mode is left after it returns, a second call included.
C14_ShutdownIdempotent ==
  /\ [][\A t \in Threads :
          /\ (pc[t] = "h_check" /\ Stepped(t)) =>
               /\ UNCHANGED <<shared, locks, files, klasses, data>>
               /\ pc'[t] = IF the_trace_ = NullTrace THEN "idle" ELSE "p_take"
          /\ (call[t] = "Shutdown" /\ Stepped(t) /\ the_trace_' # the_trace_) =>
               the_trace_' = NullTrace]_vars
  /\ [](\A t \in Threads :
          (call[t] = "Shutdown" /\ pc[t] = "idle"
             /\ \A u \in Threads \ {t} : call[u] = "none") =>
            /\ ~IsMiniTraceActive
            /\ live = {} /\ listeners = {} /\ ~methodTracing)

\* The third call of the only caller was a Shutdown(), it has returned, and
\* an earlier call had created a session.
C14_Witness ==
  /\ calls = 3 /\ call["t1"] = "Shutdown" /\ pc["t1"] = "idle"
  /\ call["t2"] = "none"
  /\ fileExists /\ "Main" \in stubs

\* C15: the class-prepare callback and the flag.  When a class outside the
\* excluded categories is prepared it gets the flag, and it gets stubs
\* exactly when a session is active at that step; no step clears a flag; and
\* a class gets stubs only at its own preparation under an active session or
\* at the step of a Start() that creates a session.
C15_FlagMonotonic ==
  [][\A c \in Classes :
       /\ (c \notin loaded /\ c \in loaded' /\ ~ExcludedCategory(c)) =>
            /\ c \in traceable'
            /\ c \in stubs' <=> IsMiniTraceActive
       /\ c \in traceable => c \in traceable'
       /\ (c \notin stubs /\ c \in stubs') =>
            \/ c \notin loaded /\ c \in loaded' /\ IsMiniTraceActive
            \/ the_trace_ = NullTrace /\ the_trace_' # NullTrace]_vars

\* After a Start() and a Stop() a class was prepared with no session active:
\* it carries the flag and has no stubs.
C15_Witness ==
  /\ "Main" \in traceable /\ "Main" \notin stubs
  /\ fileExists /\ the_trace_ = NullTrace /\ live = {}

\* The "Start" envelope lines of a file.
StartLines(f) == Cardinality({i \in DOMAIN f : f[i] = StartLine})

\* C16: one "Start" line per session created.  The file never holds more
\* "Start" lines than sessions have been created, since a Start() that finds
\* a session at either check writes nothing.
C16_StartLinePerSession == StartLines(file) <= created

\* No Start(), Stop() or Shutdown() call is in progress.
NoStartStopInProgress == \A t \in Threads : pc[t] # "idle" => call[t] = "Dump"

\* C17: the parts of the tracing state agree.  Whenever no Start() or Stop()
\* is in progress, a session is active exactly when method tracing is on,
\* the active session is the registered listener, and without a session no
\* listener is registered.
C17_StateAgrees ==
  NoStartStopInProgress =>
    /\ IsMiniTraceActive <=> methodTracing
    /\ IsMiniTraceActive => listeners = {the_trace_}
    /\ ~IsMiniTraceActive => listeners = {}

C19_RunsToCompletion ==
  /\ [](\A t \in Threads : pc[t] = "idle" => gcOwner # t /\ suspendOwner # t)
  /\ \A t \in Threads :
       (call[t] \in {"Start", "Stop", "Shutdown"} /\ pc[t] # "idle") ~> (pc[t] = "idle")

\* A Stop() waits for the GC critical section while a Start() is inside it
\* with all threads suspended.
C19_Witness ==
  \E t, u \in Threads :
    /\ call[t] = "Stop" /\ pc[t] = "p_gcs"
    /\ call[u] = "Start" /\ gcOwner = u /\ suspendOwner = u

\* C20: what a dump does to the coverage bytes, by outcome.  No step of
\* DumpCoverageData(bool) outside the class walk changes a coverage byte:
\* not the early return without a session or without the file, not the
\* write, failed or not; a dump that writes a "Start" record never enters
\* the walk; and when a dump has walked and stands before its write, each
\* byte its buffer reports as 1 has been cleared, unless marked again since.
C20_DumpFrame ==
  /\ [][\A t \in Threads :
          (Stepped(t) /\ pc[t] \in {"d_check", "d_soa", "d_write"}) =>
            /\ data' = data
            /\ (pc[t] = "d_check" /\ pc'[t] = "idle") => file' = file
            /\ (pc[t] = "d_check" /\ start[t]) => pc'[t] \in {"idle", "d_write"}]_vars
  /\ [](\A t \in Threads :
          /\ start[t] => pc[t] \notin WalkPcs \cup {"d_soa"}
          /\ (start[t] /\ pc[t] = "d_write") => os[t] = <<StartLine>>
          /\ pc[t] = "d_write" =>
               \A k \in DOMAIN os[t] : os[t][k].kind = "Cov" =>
                 \A i \in ByteIdx(os[t][k].m) :
                   os[t][k].bits[i + 1] = 1 =>
                     \/ data[os[t][k].m].bytes[i + 1] = 0
                     \/ <<os[t][k].m, i>> \notin reported
                     \/ \E u \in Threads \ {t} :
                          pc[u] = "d_clear" /\ Head(meth[u]) = os[t][k].m
                            /\ Len(bits[u]) = i + 1)

\* A dump walked, printed and cleared a mark, and its write failed: the file
\* is empty and the byte is zero.
C20_Witness ==
  /\ calls = 2 /\ call["t1"] = "Start" /\ call["t2"] = "Dump"
  /\ pc["t1"] = "idle" /\ pc["t2"] = "idle"
  /\ fileExists /\ file = <<>>
  /\ <<"m1", 0>> \in reported /\ data["m1"].bytes = <<0>>

====
